---- MODULE Spec2Model ----
(***************************************************************************)
(* rust-kv: an in-memory key-value HTTP service (axum) with a latency      *)
(* recorder.  The model follows src/src/main.rs: the Metrics object        *)
(* (record / get_percentiles over an RwLock<Vec<Duration>>), the route     *)
(* table and the latency middleware layer, the four handlers, and the      *)
(* background reporter task.                                               *)
(*                                                                         *)
(* Durations are natural numbers of nanoseconds.  An f64 number of         *)
(* milliseconds obtained as `as_micros() as f64 / 1000.0` is the pair      *)
(* <<whole milliseconds, thousandths>>.  Every blocking lock acquisition   *)
(* is a step of its own; the code that runs while a lock is held, up to    *)
(* the drop of the guard, is one step.                                     *)
(***************************************************************************)
EXTENDS Integers, Sequences, FiniteSets

(* ------------------------------ bounds --------------------------------- *)

\* Requests that may be in flight at once (worker tasks serving connections).
NumReq == 2

\* Requests issued in one run of the concurrent server.
MaxRequests == 3

\* Requests issued in one run of the server with a single sequential client.
MaxSeqRequests == 4

\* Requests issued in one run of the server under fair scheduling.
MaxLiveRequests == 1

\* Longest sample sequence built by direct calls on a Metrics object.
MaxLen == 5

\* Direct get_percentiles calls in a row, with no record call between them.
MaxSnaps == 2

\* Longest vector whose percentile indices are computed on their own.
MaxVecLen == 200

(* ------------------------------ inputs --------------------------------- *)

\* The path segment of the fixed route "/metrics" (line 78).
MetricsPath == "metrics"

\* Path segments requests are sent to: two ordinary keys and the fixed route's name.
Paths == {"foo", "baz", MetricsPath}

\* Request bodies of PUT.
Values == {"bar", "qux"}

\* Elapsed times the layer may measure for a request (ns): 1.234567 ms and 10 ms.
Durations == {1234567, 10000000}

\* Elapsed times latency_middleware may measure for a request (ns).
InnerDurations == {1234567}

\* Durations recorded by direct calls: below one microsecond, fractional
\* milliseconds, and the 10/20/30/40/100 ms of the end-to-end scenario.
SampleDurations == {999, 1234567, 10000000, 20000000, 30000000, 40000000, 100000000}

(* ------------------------------ tasks ---------------------------------- *)

\* The background reporter task spawned by main.
Reporter == 0

\* The request-serving tasks.
Reqs == 1..NumReq

Tasks == Reqs \cup {Reporter}

VARIABLES
    store,      \* HashMap<String,String>: a function from the present keys
    storeLock,  \* RwLock of the store: [w |-> writers inside, r |-> readers inside]
    latencies,  \* Vec<Duration> of the Metrics object (ns)
    recLock,    \* RwLock of latencies: [w |-> writers inside, r |-> readers inside]
    pc,         \* position of every task
    req,        \* the request a serving task works on
    resp,       \* the response the handler produced for it
    sent,       \* the response the layer returned last, which the server writes out
    meas,       \* the elapsed times the two middleware layers measured for it
    rep,        \* the reporter's local (p50, p95, p99, count)
    printed,    \* the report the reporter wrote to stdout in its current iteration
    ret,        \* value returned to a direct caller of get_percentiles
    calls,      \* direct get_percentiles calls since the last direct record call
    lenArg,     \* `len` of an index computation done on its own (lines 42-49)
    idxs,       \* its indices, per quantile: as computed, and as used after `.min`
    issued,     \* requests that entered the middleware so far
    nRecorded,  \* history: record calls completed so far
    lastPut,    \* history: per key, {body of the most recent PUT}, {} before any
    delSince    \* history: per key, whether a DELETE answered 204 since that PUT

vars == <<store, storeLock, latencies, recLock, pc, req, resp, sent, meas, rep,
          printed, ret, calls, lenArg, idxs, issued, nRecorded, lastPut, delSince>>

(* --------------------------- pure functions ---------------------------- *)

\* Variant: a sort that also drops equal samples (sort followed by dedup).
RECURSIVE InsertSortedDedup(_, _)
InsertSortedDedup(s, d) ==
    IF s = <<>> THEN <<d>>
    ELSE IF d = Head(s) THEN s
    ELSE IF d < Head(s) THEN <<d>> \o s
    ELSE <<Head(s)>> \o InsertSortedDedup(Tail(s), d)

\* slice::sort on Vec<Duration>: ascending, by insertion.
RECURSIVE InsertSorted(_, _)
InsertSorted(s, d) ==
    IF s = <<>> THEN <<d>>
    ELSE IF d < Head(s) THEN <<d>> \o s
    ELSE <<Head(s)>> \o InsertSorted(Tail(s), d)

\* Variant: the vector is read as it is, without sorting.
SortSkipped(s) == s

RECURSIVE Sort(_)
Sort(s) ==
    IF s = <<>> THEN <<>> ELSE InsertSorted(Sort(SubSeq(s, 1, Len(s) - 1)), s[Len(s)])

\* Duration::as_micros: whole microseconds, the nanosecond remainder dropped.
AsMicros(d) == d \div 1000

\* `as_micros() as f64 / 1000.0`: milliseconds as <<whole, thousandths>>.
Millis(d) == <<AsMicros(d) \div 1000, AsMicros(d) % 1000>>

\* Variant: the product rounded to the nearest integer instead of truncated.
PctIdxRounded(len, num) == (len * num + 50) \div 100

\* Variant: the product rounded up, the textbook nearest rank.
PctIdxCeil(len, num) == (len * num + 99) \div 100

\* `(len as f64 * q) as usize` for q = num/100: the product truncated toward zero.
\* For the lengths a Vec can have the f64 product lies within 1e-9 of the exact
\* one and the cast yields the exact floor.
PctIdx(len, num) == (len * num) \div 100

\* usize::min
Min(a, b) == IF a < b THEN a ELSE b

\* The tuple get_percentiles returns for an empty vector (line 37).
EmptyRet == [p50 |-> <<0, 0>>, p95 |-> <<0, 0>>, p99 |-> <<0, 0>>, count |-> 0]

\* latencies[idx.min(len - 1)] of a 0-based vector, in milliseconds (lines 47-49).
PctValue(sorted, idx) == Millis(sorted[Min(idx, Len(sorted) - 1) + 1])

\* No tuple: nothing has been returned.
NoRet == [p50 |-> <<>>, p95 |-> <<>>, p99 |-> <<>>, count |-> 0]

\* Variant: the samples are taken out of the vector, which is left empty.
GetPercentilesDrain(lat) ==
    IF lat = <<>> THEN [lat |-> lat, ret |-> EmptyRet]
    ELSE LET sorted == Sort(lat)
             len == Len(sorted)
         IN [lat |-> <<>>,
             ret |-> [p50 |-> PctValue(sorted, PctIdx(len, 50)),
                      p95 |-> PctValue(sorted, PctIdx(len, 95)),
                      p99 |-> PctValue(sorted, PctIdx(len, 99)),
                      count |-> len]]

\* Variant: no early return for the empty vector; `len - 1` underflows, the
\* call panics and returns no tuple.
GetPercentilesNoEmptyCheck(lat) ==
    IF lat = <<>> THEN [lat |-> lat, ret |-> NoRet]
    ELSE LET sorted == Sort(lat)
             len == Len(sorted)
         IN [lat |-> sorted,
             ret |-> [p50 |-> PctValue(sorted, PctIdx(len, 50)),
                      p95 |-> PctValue(sorted, PctIdx(len, 95)),
                      p99 |-> PctValue(sorted, PctIdx(len, 99)),
                      count |-> len]]

\* Variant: the count includes the request being served.
GetPercentilesCountsCaller(lat) ==
    LET sorted == Sort(lat)
        len == Len(sorted)
    IN [lat |-> sorted,
        ret |-> [p50 |-> IF len = 0 THEN <<0, 0>> ELSE PctValue(sorted, PctIdx(len, 50)),
                 p95 |-> IF len = 0 THEN <<0, 0>> ELSE PctValue(sorted, PctIdx(len, 95)),
                 p99 |-> IF len = 0 THEN <<0, 0>> ELSE PctValue(sorted, PctIdx(len, 99)),
                 count |-> len + 1]]

\* Metrics::get_percentiles under the write guard: the vector it leaves and
\* the tuple it returns.
GetPercentiles(lat) ==
    IF lat = <<>> THEN [lat |-> lat, ret |-> EmptyRet]
    ELSE LET sorted == Sort(lat)
             len == Len(sorted)
         IN [lat |-> sorted,
             ret |-> [p50 |-> PctValue(sorted, PctIdx(len, 50)),
                      p95 |-> PctValue(sorted, PctIdx(len, 95)),
                      p99 |-> PctValue(sorted, PctIdx(len, 99)),
                      count |-> len]]

\* Variant: a capped buffer that evicts the oldest sample once two are stored.
PushCapped(lat, d) == IF Len(lat) >= 2 THEN Append(Tail(lat), d) ELSE Append(lat, d)

\* Variant: the sample is pushed twice.
PushTwice(lat, d) == Append(Append(lat, d), d)

\* Metrics::record under the write guard: Vec::push.
Push(lat, d) == Append(lat, d)

\* "{:.2}" of an f64 number of milliseconds: <<whole, hundredths>>, rounded to
\* the nearest hundredth.  Where the thousandths end in 5 the digit printed
\* depends on the binary value of the f64; the elapsed times of Durations and
\* SampleDurations never end so.
Fmt2(ms) ==
    LET h == (ms[1] * 1000 + ms[2] + 5) \div 10
    IN <<h \div 100, h % 100>>

\* The text both reports carry: count, P50, P95, P99 to two decimals.
FormatReport(r) == <<r.count, Fmt2(r.p50), Fmt2(r.p95), Fmt2(r.p99)>>

(* ------------------------------ locks ---------------------------------- *)

FreeLock == [w |-> {}, r |-> {}]

\* Variant: a write acquisition that does not wait for another writer.
CanWriteShared(l) == l.r = {}

\* RwLock::write returns once no writer and no reader is inside.
CanWrite(l) == l.w = {} /\ l.r = {}

\* RwLock::read returns once no writer is inside.
CanRead(l) == l.w = {}

(* ----------------------------- requests -------------------------------- *)

NoReq == [method |-> "", path |-> "", body |-> ""]
NoResp == [status |-> 0, text |-> "", report |-> <<>>]
NoMeas == [logged |-> 0, recorded |-> 0]

\* Requests to the given paths: PUT carries a body, GET and DELETE none.
RequestsTo(paths, values) ==
    {[method |-> "PUT", path |-> p, body |-> b] : p \in paths, b \in values}
    \cup {[method |-> m, path |-> p, body |-> ""] : m \in {"GET", "DELETE"}, p \in paths}

\* What concurrent clients send: one ordinary key, the fixed route, one value.
Requests == RequestsTo({"foo", MetricsPath}, {"bar"})

\* What the sequential client sends: every path, every value.
SeqRequests == RequestsTo(Paths, Values)

\* The route table (lines 73-78): the static route "/metrics" wins over
\* "/{key}"; a method the matched route does not list is answered 405.
Route(q) ==
    IF q.path = MetricsPath
    THEN IF q.method = "GET" THEN "metrics_handler" ELSE "method_not_allowed"
    ELSE CASE q.method = "PUT" -> "put_handler"
           [] q.method = "GET" -> "get_handler"
           [] q.method = "DELETE" -> "delete_handler"

Response(status, text) == [status |-> status, text |-> text, report |-> <<>>]

(* ------------------------------- store -------------------------------- *)

\* HashMap::new
EmptyMap == [k \in {} |-> ""]

\* Variant: an existing entry keeps its value (entry().or_insert()).
MapInsertIfAbsent(m, k, v) == [x \in DOMAIN m \cup {k} |-> IF x \in DOMAIN m THEN m[x] ELSE v]

\* HashMap::insert
MapInsert(m, k, v) == [x \in DOMAIN m \cup {k} |-> IF x = k THEN v ELSE m[x]]

\* Variant: remove reports the entry and leaves it in the map.
MapRemoveKept(m, k) == m

\* HashMap::remove
MapRemove(m, k) == [x \in DOMAIN m \ {k} |-> m[x]]

(* ------------------------------- Init ---------------------------------- *)

\* The state main builds before it serves: empty store, empty recorder, the
\* reporter spawned, no request in flight.
Started ==
    /\ store = EmptyMap
    /\ storeLock = FreeLock
    /\ latencies = <<>>
    /\ recLock = FreeLock
    /\ pc = [t \in Tasks |-> IF t = Reporter THEN "waiting" ELSE "idle"]
    /\ req = [r \in Reqs |-> NoReq]
    /\ resp = [r \in Reqs |-> NoResp]
    /\ sent = NoResp
    /\ meas = [r \in Reqs |-> NoMeas]
    /\ rep = NoRet
    /\ printed = <<>>
    /\ ret = NoRet
    /\ calls = 0
    /\ issued = 0
    /\ nRecorded = 0
    /\ lastPut = [k \in Paths |-> {}]
    /\ delSince = [k \in Paths |-> FALSE]

\* The indices of the three quantiles, none computed yet.
NoIdxs == <<>>

Init ==
    /\ Started
    /\ lenArg = 0
    /\ idxs = NoIdxs

(* ------------------- the middleware layer and routing ------------------ *)

\* Variant: an error response returns early and is not recorded.
AfterResponseSkipErrors(response) == IF response.status >= 400 THEN "idle" ELSE "rec_acq"

\* The handler's response comes back to the layer, which goes on to record
\* whatever the status is (lines 83-85).
AfterResponse(response) == "rec_acq"

\* A request enters the layer (lines 79-83, 114-118): both start instants are
\* taken and the router dispatches it to the handler of its route.
Arrive(r, q) ==
    /\ pc[r] = "idle"
    /\ issued' = issued + 1
    /\ req' = [req EXCEPT ![r] = q]
    /\ pc' = [pc EXCEPT ![r] =
                CASE Route(q) = "metrics_handler" -> "snap_acq"
                  [] Route(q) = "method_not_allowed" -> "reject"
                  [] OTHER -> "store_acq"]
    /\ UNCHANGED <<store, storeLock, latencies, recLock, resp, meas, rep, printed,
                   ret, calls, nRecorded, lastPut, delSince, sent,
                   lenArg, idxs>>

\* The matched route lists no handler for the method: it answers 405 itself,
\* touching neither the store nor the recorder.
Reject(r) ==
    /\ pc[r] = "reject"
    /\ resp' = [resp EXCEPT ![r] = Response(405, "")]
    /\ req' = [req EXCEPT ![r] = NoReq]
    /\ pc' = [pc EXCEPT ![r] = AfterResponse(Response(405, ""))]
    /\ UNCHANGED <<store, storeLock, latencies, recLock, meas, rep, printed, ret, calls,
                   issued, nRecorded, lastPut, delSince, sent,
                   lenArg, idxs>>

(* ----------------------------- the handlers ---------------------------- *)

\* Task t stands at a lock acquisition that cannot return now: store.write()
\* or store.read() of a store handler (lines 134, 144, 157), latencies.write()
\* of get_percentiles (line 34) or of record (line 29).
MustWait(t) ==
    CASE pc[t] = "store_acq" ->
            IF Route(req[t]) = "get_handler"
            THEN ~CanRead(storeLock) ELSE ~CanWrite(storeLock)
      [] pc[t] \in {"snap_acq", "rec_acq"} -> ~CanWrite(recLock)
      [] OTHER -> FALSE

\* store.write() of put_handler and delete_handler, store.read() of get_handler.
StoreAcquire(r) ==
    /\ pc[r] = "store_acq"
    /\ ~MustWait(r)
    /\ storeLock' = IF Route(req[r]) = "get_handler"
                    THEN [storeLock EXCEPT !.r = @ \cup {r}]
                    ELSE [storeLock EXCEPT !.w = @ \cup {r}]
    /\ pc' = [pc EXCEPT ![r] = "store_in"]
    /\ UNCHANGED <<store, latencies, recLock, req, resp, meas, rep, printed, ret, calls,
                   issued, nRecorded, lastPut, delSince, sent,
                   lenArg, idxs>>

\* Variant: the guard outlives the handler and is still held in the middleware.
StoreReleaseKept(r) == storeLock

\* The guard of a store handler is dropped when the handler returns.
StoreRelease(r) == [w |-> storeLock.w \ {r}, r |-> storeLock.r \ {r}]

\* put_handler (lines 134-136).
PutEffect(m, q) == [store |-> MapInsert(m, q.path, q.body), resp |-> Response(200, "")]

\* Variant: an absent key is answered 200 with an empty value.
GetEffectDefault(m, q) ==
    [store |-> m,
     resp |-> IF q.path \in DOMAIN m THEN Response(200, m[q.path]) ELSE Response(200, "")]

\* get_handler (lines 146-149).
GetEffect(m, q) ==
    [store |-> m,
     resp |-> IF q.path \in DOMAIN m THEN Response(200, m[q.path]) ELSE Response(404, "")]

\* delete_handler (lines 159-162).
DeleteEffect(m, q) ==
    [store |-> MapRemove(m, q.path),
     resp |-> IF q.path \in DOMAIN m THEN Response(204, "") ELSE Response(404, "")]

HandlerEffect(m, q) ==
    CASE Route(q) = "put_handler" -> PutEffect(m, q)
      [] Route(q) = "get_handler" -> GetEffect(m, q)
      [] Route(q) = "delete_handler" -> DeleteEffect(m, q)

\* The body of a store handler, which consumes the request, run under its
\* guard, and the drop of the guard.
StoreBody(r) ==
    /\ pc[r] = "store_in"
    /\ LET eff == HandlerEffect(store, req[r])
           k == req[r].path
       IN /\ store' = eff.store
          /\ resp' = [resp EXCEPT ![r] = eff.resp]
          /\ lastPut' = IF req[r].method = "PUT"
                        THEN [lastPut EXCEPT ![k] = {req[r].body}] ELSE lastPut
          /\ delSince' = CASE req[r].method = "PUT" -> [delSince EXCEPT ![k] = FALSE]
                           [] req[r].method = "DELETE" /\ eff.resp.status = 204 ->
                                [delSince EXCEPT ![k] = TRUE]
                           [] OTHER -> delSince
    /\ storeLock' = StoreRelease(r)
    /\ pc' = [pc EXCEPT ![r] = AfterResponse(HandlerEffect(store, req[r]).resp)]
    /\ req' = [req EXCEPT ![r] = NoReq]
    /\ UNCHANGED <<latencies, recLock, meas, rep, printed, ret, calls, issued, nRecorded, sent,
                   lenArg, idxs>>

(* ------------------------------- Metrics ------------------------------- *)

\* self.latencies.write() of get_percentiles (line 34), called by
\* metrics_handler (line 167) or by the reporter (line 96).
SnapAcquire(t) ==
    /\ pc[t] = "snap_acq"
    /\ ~MustWait(t)
    /\ recLock' = [recLock EXCEPT !.w = @ \cup {t}]
    /\ pc' = [pc EXCEPT ![t] = "snap_in"]
    /\ UNCHANGED <<store, storeLock, latencies, req, resp, meas, rep, printed, ret, calls,
                   issued, nRecorded, lastPut, delSince, sent,
                   lenArg, idxs>>

\* Variant: the guard is leaked and the lock stays held.
RecReleaseLeaked(t) == recLock

\* The guard of the recorder is dropped when record or get_percentiles returns.
RecRelease(t) == [w |-> recLock.w \ {t}, r |-> recLock.r \ {t}]

\* Variant: with no sample to report the endpoint answers 204 No Content.
MetricsResponseNoContent(r) ==
    [status |-> IF r.count = 0 THEN 204 ELSE 200, text |-> "", report |-> FormatReport(r)]

\* metrics_handler (lines 167-177): the status and the formatted report.
MetricsResponse(r) == [status |-> 200, text |-> "", report |-> FormatReport(r)]

\* The body of get_percentiles (lines 36-51) under the guard, and what the
\* caller does with the tuple: metrics_handler formats the response, the
\* reporter keeps it for printing.
SnapBody(t) ==
    /\ pc[t] = "snap_in"
    /\ LET res == GetPercentiles(latencies)
       IN /\ latencies' = res.lat
          /\ IF t = Reporter
             THEN /\ rep' = res.ret
                  /\ pc' = [pc EXCEPT ![t] = "printing"]
                  /\ resp' = resp
             ELSE /\ resp' = [resp EXCEPT ![t] = MetricsResponse(res.ret)]
                  /\ pc' = [pc EXCEPT ![t] = AfterResponse(MetricsResponse(res.ret))]
                  /\ rep' = rep
    /\ recLock' = RecRelease(t)
    /\ req' = [r \in Reqs |-> IF r = t THEN NoReq ELSE req[r]]
    /\ UNCHANGED <<store, storeLock, meas, printed, ret, calls, issued, nRecorded,
                   lastPut, delSince, sent,
                   lenArg, idxs>>

\* The handler has answered: latency_middleware measures and logs its elapsed
\* time (lines 120-123), the layer measures its own (line 84), which started
\* no later and ends no earlier, and calls record, which takes the write
\* lock (line 29).
RecAcquire(r) ==
    /\ pc[r] = "rec_acq"
    /\ ~MustWait(r)
    /\ \E lg \in InnerDurations, d \in Durations :
          /\ lg <= d
          /\ meas' = [meas EXCEPT ![r] = [logged |-> lg, recorded |-> d]]
    /\ recLock' = [recLock EXCEPT !.w = @ \cup {r}]
    /\ pc' = [pc EXCEPT ![r] = "rec_in"]
    /\ UNCHANGED <<store, storeLock, latencies, req, resp, rep, printed, ret, calls,
                   issued, nRecorded, lastPut, delSince, sent,
                   lenArg, idxs>>

\* Variant: the layer replaces the body of an error response.
DeliverMasked(response) ==
    IF response.status >= 400 THEN [response EXCEPT !.text = "error"] ELSE response

\* `response`, the last expression of latency_middleware (line 125) and of the
\* layer's closure (line 86): the handler's response is returned as it is.
Deliver(response) == response

\* latencies.push(duration) under the guard (line 30); record returns and the
\* layer returns the response (line 86).
RecPush(r) ==
    /\ pc[r] = "rec_in"
    /\ latencies' = Push(latencies, meas[r].recorded)
    /\ recLock' = RecRelease(r)
    /\ nRecorded' = nRecorded + 1
    /\ pc' = [pc EXCEPT ![r] = "idle"]
    /\ req' = [req EXCEPT ![r] = NoReq]
    /\ resp' = [resp EXCEPT ![r] = NoResp]
    /\ sent' = Deliver(resp[r])
    /\ meas' = [meas EXCEPT ![r] = NoMeas]
    /\ UNCHANGED <<store, storeLock, rep, printed, ret, calls, issued, lastPut, delSince,
                   lenArg, idxs>>

(* ----------------------------- the reporter ---------------------------- *)

\* interval.tick().await completes (line 95): a new iteration of the loop,
\* which has printed nothing yet.
Tick ==
    /\ pc[Reporter] = "waiting"
    /\ pc' = [pc EXCEPT ![Reporter] = "snap_acq"]
    /\ printed' = <<>>
    /\ UNCHANGED <<store, storeLock, latencies, recLock, req, resp, meas, rep,
                   ret, calls, issued, nRecorded, lastPut, delSince, sent,
                   lenArg, idxs>>

\* Variant: the task ends after its first report (no `loop`).
PrintReportOnce ==
    /\ pc[Reporter] = "printing"
    /\ printed' = FormatReport(rep)
    /\ rep' = NoRet
    /\ pc' = [pc EXCEPT ![Reporter] = "done"]
    /\ UNCHANGED <<store, storeLock, latencies, recLock, req, resp, meas, ret, calls,
                   issued, nRecorded, lastPut, delSince, sent,
                   lenArg, idxs>>

\* The four println! of the report (lines 97-100); the loop waits again.
PrintReport ==
    /\ pc[Reporter] = "printing"
    /\ printed' = FormatReport(rep)
    /\ rep' = NoRet
    /\ pc' = [pc EXCEPT ![Reporter] = "waiting"]
    /\ UNCHANGED <<store, storeLock, latencies, recLock, req, resp, meas, ret, calls,
                   issued, nRecorded, lastPut, delSince, sent,
                   lenArg, idxs>>

(* --------------------------- the server ---------------------------------- *)

Next ==
    \/ \E r \in Reqs, q \in Requests : issued < MaxRequests /\ Arrive(r, q)
    \/ \E r \in Reqs : Reject(r)
    \/ \E r \in Reqs : StoreAcquire(r)
    \/ \E r \in Reqs : StoreBody(r)
    \/ \E t \in Tasks : SnapAcquire(t)
    \/ \E t \in Tasks : SnapBody(t)
    \/ \E r \in Reqs : RecAcquire(r)
    \/ \E r \in Reqs : RecPush(r)
    \/ Tick
    \/ PrintReport

Spec == Init /\ [][Next]_vars

(* ------------- the server with one sequential client ------------------ *)

\* The client sends its next request once the previous one is answered; the
\* reporter has not ticked yet.
SeqArrive(q) ==
    /\ \A r \in Reqs : pc[r] = "idle"
    /\ issued < MaxSeqRequests
    /\ Arrive(1, q)

NextSeq ==
    \/ \E q \in SeqRequests : SeqArrive(q)
    \/ \E r \in Reqs : Reject(r)
    \/ \E r \in Reqs : StoreAcquire(r)
    \/ \E r \in Reqs : StoreBody(r)
    \/ \E r \in Reqs : SnapAcquire(r)
    \/ \E r \in Reqs : SnapBody(r)
    \/ \E r \in Reqs : RecAcquire(r)
    \/ \E r \in Reqs : RecPush(r)

SpecSeq == Init /\ [][NextSeq]_vars

(* ------------------ the server under fair scheduling ------------------ *)

NextLive ==
    \/ \E r \in Reqs, q \in Requests : issued < MaxLiveRequests /\ Arrive(r, q)
    \/ \E r \in Reqs : Reject(r)
    \/ \E r \in Reqs : StoreAcquire(r)
    \/ \E r \in Reqs : StoreBody(r)
    \/ \E t \in Tasks : SnapAcquire(t)
    \/ \E t \in Tasks : SnapBody(t)
    \/ \E r \in Reqs : RecAcquire(r)
    \/ \E r \in Reqs : RecPush(r)
    \/ Tick
    \/ PrintReport

\* Whoever is inside record or get_percentiles finishes and drops the guard:
\* the code under the guard has no await and no loop.
HolderLeaves == \E t \in Tasks : SnapBody(t) \/ (t \in Reqs /\ RecPush(t))

\* The interval timer keeps ticking, the reporter task is scheduled when it
\* can run, the holder of the recorder lock leaves it, and the reporter's
\* request for the lock, free again and again, is granted (fair lock
\* acquisition).
Fairness ==
    /\ WF_vars(Tick)
    /\ WF_vars(PrintReport)
    /\ WF_vars(HolderLeaves)
    /\ SF_vars(SnapAcquire(Reporter))

SpecLive == Init /\ [][NextLive]_vars /\ Fairness

(* ---------------- direct calls on one Metrics object ------------------- *)

\* metrics.record(d) by the only caller: lock, push, unlock.
CallRecord(d) ==
    /\ Len(latencies) < MaxLen
    /\ CanWrite(recLock)
    /\ latencies' = Push(latencies, d)
    /\ ret' = NoRet
    /\ calls' = 0
    /\ UNCHANGED <<store, storeLock, recLock, pc, req, resp, meas, rep, printed,
                   issued, nRecorded, lastPut, delSince, sent,
                   lenArg, idxs>>

\* metrics.get_percentiles() by the only caller: lock, lines 36-51, unlock.
CallSnapshot ==
    /\ calls < MaxSnaps
    /\ CanWrite(recLock)
    /\ LET res == GetPercentiles(latencies)
       IN /\ latencies' = res.lat
          /\ ret' = res.ret
    /\ calls' = calls + 1
    /\ UNCHANGED <<store, storeLock, recLock, pc, req, resp, meas, rep, printed,
                   issued, nRecorded, lastPut, delSince, sent,
                   lenArg, idxs>>

NextCalls ==
    \/ \E d \in SampleDurations : CallRecord(d)
    \/ CallSnapshot

SpecCalls == Init /\ [][NextCalls]_vars

(* -------------- the index computation of get_percentiles --------------- *)

\* The quantiles of lines 43-45, in hundredths.
Quantiles == {50, 95, 99}

\* A vector of any length from 1 to MaxVecLen.
InitIdx ==
    /\ Started
    /\ lenArg \in 1..MaxVecLen
    /\ idxs = NoIdxs

\* Lines 42-49 for a vector of lenArg samples: per quantile, the index as
\* computed and the index used after `.min(len - 1)`.
ComputeIdx ==
    /\ idxs = NoIdxs
    /\ idxs' = [num \in Quantiles |->
                  [raw |-> PctIdx(lenArg, num),
                   used |-> Min(PctIdx(lenArg, num), lenArg - 1)]]
    /\ UNCHANGED <<store, storeLock, latencies, recLock, pc, req, resp, sent, meas, rep,
                   printed, ret, calls, lenArg, issued, nRecorded, lastPut, delSince>>

NextIdx == ComputeIdx

SpecIdx == InitIdx /\ [][NextIdx]_vars

(* ------------------------------ properties ----------------------------- *)

\* Occurrences of d in the sequence s.
Count(s, d) == Cardinality({i \in DOMAIN s : s[i] = d})

\* The same samples, each as often, in whatever order.
SameSamples(s, t) ==
    /\ Len(s) = Len(t)
    /\ \A i \in DOMAIN s : Count(s, s[i]) = Count(t, s[i])

\* Every sample of s is in t at least as often.
KeepsSamples(s, t) == \A i \in DOMAIN s : Count(t, s[i]) >= Count(s, s[i])

\* The count in the tuple get_percentiles returned to task t.
SnapCount(t) == IF t = Reporter THEN rep.count ELSE resp[t].report[1]

\* Task t finishes get_percentiles in this step.
SnapshotReturns(t) == pc[t] = "snap_in" /\ pc'[t] # "snap_in"

\* The tasks inside record or get_percentiles, between lock and unlock.
InsideRecorder == {t \in Tasks : pc[t] \in {"rec_in", "snap_in"}}

\* C1: under any interleaving of record calls and snapshots (endpoint or
\* reporter) no sample is lost or duplicated: the vector always holds one
\* sample per completed record call, and a snapshot, taken while no record is
\* inside the recorder, returns as count the number of completed record calls.
C1_NoSampleLostOrDuplicated ==
    /\ [](Len(latencies) = nRecorded)
    /\ [][\A t \in Tasks : SnapshotReturns(t) =>
             /\ InsideRecorder = {t}
             /\ SnapCount(t)' = nRecorded]_vars

\* Two record calls have completed, a third request waits to record, and the
\* reporter's snapshot has returned count 2.
C1_Witness ==
    /\ pc[Reporter] = "printing"
    /\ rep.count = 2
    /\ nRecorded = 2
    /\ \E r \in Reqs : pc[r] = "rec_acq"

\* C3: every request that entered the layer and was answered has appended
\* exactly one sample, whatever its route and status: the samples stored are
\* the requests issued less those still in flight.
C3_OneSamplePerRequest ==
    Len(latencies) + Cardinality({r \in Reqs : pc[r] # "idle"}) = issued

\* Two requests are complete and recorded; a third, answered 404, is inside record.
C3_Witness ==
    /\ Len(latencies) = 2
    /\ \E r \in Reqs : pc[r] = "rec_in" /\ resp[r].status = 404

\* C4: at most one task is inside record or get_percentiles at any moment,
\* and it is the one holding the write lock.
C4_MutualExclusion ==
    /\ Cardinality(InsideRecorder) <= 1
    /\ recLock.w = InsideRecorder
    /\ recLock.r = {}

\* A request is inside record while the reporter wants to take a snapshot.
C4_Witness ==
    /\ pc[Reporter] = "snap_acq"
    /\ \E r \in Reqs : pc[r] = "rec_in"

\* A request's record call or endpoint snapshot waits for the recorder while
\* the reporter's snapshot holds it.
WaitsForReporter ==
    /\ Reporter \in recLock.w
    /\ \E r \in Reqs : pc[r] \in {"rec_acq", "snap_acq"} /\ MustWait(r)

\* The reporter's snapshot waits for the recorder while a request holds it.
ReporterWaits ==
    /\ MustWait(Reporter)
    /\ recLock.w \cap Reqs # {}

\* C5 as stated: no reachable state has a request waiting for access held by
\* the reporter's snapshot, or the reporter waiting for access held by a request.
C5_NeverWaits == ~WaitsForReporter /\ ~ReporterWaits

\* C5 as amended: a task can wait for the recorder only for one critical
\* section: whoever holds the recorder is inside record or get_percentiles,
\* holds no store lock, stands at no lock acquisition, and its next step
\* frees the recorder.
C5_WaitsOneCriticalSection ==
    /\ [](\A t \in recLock.w :
             /\ pc[t] \in {"rec_in", "snap_in"}
             /\ t \notin storeLock.w \cup storeLock.r
             /\ ~MustWait(t))
    /\ [][\A t \in recLock.w : pc'[t] # pc[t] => recLock'.w = {}]_vars

\* The reporter is inside its snapshot while one request waits to record and
\* another waits to take the endpoint's snapshot.
C5_Witness ==
    /\ pc[Reporter] = "snap_in"
    /\ \E r1, r2 \in Reqs :
          /\ pc[r1] = "rec_acq" /\ MustWait(r1)
          /\ pc[r2] = "snap_acq" /\ MustWait(r2)

\* C6: the sample sequence only grows: no step of any task makes it shorter
\* or removes or replaces a stored sample.
C6_OnlyGrows ==
    [][Len(latencies') >= Len(latencies) /\ KeepsSamples(latencies, latencies')]_vars

\* Three samples are stored, the last recorded after a snapshot sorted the
\* first two: the sequence grew across a snapshot.
C6_Witness ==
    /\ pc[Reporter] = "printing"
    /\ rep.count = 2
    /\ Len(latencies) = 3
    /\ latencies[1] < latencies[2]
    /\ latencies[3] < latencies[2]

\* C8: a snapshot, from the endpoint or the reporter, only reorders the
\* samples and leaves the store alone; no step of the reporter adds a sample.
C8_SnapshotOnlyReorders ==
    [][/\ \A t \in Tasks : SnapshotReturns(t) =>
             SameSamples(latencies, latencies') /\ store' = store
       /\ pc'[Reporter] # pc[Reporter] =>
             SameSamples(latencies, latencies') /\ store' = store]_vars

\* The reporter's snapshot has sorted three samples, two of them equal, while
\* the store holds a key.
C8_Witness ==
    /\ pc[Reporter] = "printing"
    /\ rep.count = 3
    /\ Len(latencies) = 3
    /\ latencies[1] = latencies[2]
    /\ latencies[2] < latencies[3]
    /\ DOMAIN store # {}

\* A direct get_percentiles call returns in this step.
CallReturns == calls' = calls + 1

\* floor(n * num / 100), clamped to n - 1: the nearest-rank position.
NearestRank(n, num) ==
    LET f == CHOOSE i \in 0..n : i * 100 <= n * num /\ n * num < (i + 1) * 100
    IN IF f < n - 1 THEN f ELSE n - 1

\* d stands at 0-based position idx when the samples of s are put in ascending order.
AtSortedPosition(s, idx, d) ==
    /\ \E i \in DOMAIN s : s[i] = d
    /\ Cardinality({i \in DOMAIN s : s[i] < d}) <= idx
    /\ idx < Cardinality({i \in DOMAIN s : s[i] <= d})

\* ms, as <<whole, thousandths>>, is the whole microseconds of d divided by 1000.
IsMillisOf(ms, d) ==
    LET us == ms[1] * 1000 + ms[2]
    IN /\ ms[2] \in 0..999
       /\ us * 1000 <= d
       /\ d < (us + 1) * 1000

\* The five durations of the end-to-end scenario: 10, 20, 30, 40 and 100 ms.
ScenarioA == <<10000000, 20000000, 30000000, 40000000, 100000000>>

\* C2: for a non-empty sequence of N samples get_percentiles returns count N
\* and, for q = 0.50, 0.95, 0.99, the sample at position min(floor(N*q), N-1)
\* of the ascending order, in milliseconds; the samples 10, 20, 30, 40, 100 ms
\* recorded in any order give (30.00, 100.00, 100.00, 5).
C2_NearestRankPercentiles ==
    [][(CallReturns /\ latencies # <<>>) =>
         /\ ret'.count = Len(latencies)
         /\ \A p \in {<<ret'.p50, 50>>, <<ret'.p95, 95>>, <<ret'.p99, 99>>} :
               \E i \in DOMAIN latencies :
                  /\ AtSortedPosition(latencies, NearestRank(Len(latencies), p[2]),
                                      latencies[i])
                  /\ IsMillisOf(p[1], latencies[i])
         /\ SameSamples(latencies, ScenarioA) =>
               ret' = [p50 |-> <<30, 0>>, p95 |-> <<100, 0>>, p99 |-> <<100, 0>>,
                       count |-> 5]]_vars

\* The scenario's samples were recorded and the snapshot returned
\* (30.00, 100.00, 100.00, 5).
C2_Witness ==
    /\ calls = 1
    /\ latencies = ScenarioA
    /\ ret = [p50 |-> <<30, 0>>, p95 |-> <<100, 0>>, p99 |-> <<100, 0>>, count |-> 5]

\* C7: a get_percentiles call that follows another with no record call in
\* between returns the same tuple.
C7_SnapshotIdempotent ==
    [][(CallReturns /\ calls >= 1) => ret' = ret]_vars

\* Two calls in a row have returned, over three samples of which the first
\* call had to move some.
C7_Witness ==
    /\ calls = 2
    /\ ret.count = 3
    /\ ret.p50 # ret.p99

\* C9: get_percentiles on an empty sequence returns (0.0, 0.0, 0.0, 0) and
\* leaves the sequence empty.
C9_EmptySnapshot ==
    [][(CallReturns /\ latencies = <<>>) =>
         /\ ret' = [p50 |-> <<0, 0>>, p95 |-> <<0, 0>>, p99 |-> <<0, 0>>, count |-> 0]
         /\ latencies' = <<>>]_vars

\* A call on the empty sequence has returned.
C9_Witness ==
    /\ calls >= 1
    /\ latencies = <<>>
    /\ ret.count = 0
    /\ ret.p50 = <<0, 0>>

\* Key k is present by the history of requests: a PUT /k was served and no
\* DELETE /k answered 204 since the most recent one.
Present(k) == lastPut[k] # {} /\ ~delSince[k]

\* The same after this step.
PresentAfter(k) == lastPut'[k] # {} /\ ~delSince'[k]

\* The handler of request r answers in this step.
Answers(r) == resp[r] = NoResp /\ resp'[r] # NoResp

\* What the claim expects of GET /k.
ExpectedGet(k) ==
    IF Present(k)
    THEN [status |-> 200, text |-> CHOOSE v \in lastPut[k] : TRUE, report |-> <<>>]
    ELSE [status |-> 404, text |-> "", report |-> <<>>]

\* What the claim says of a GET or DELETE of path k answered in this step.
StoreContract(r, k) ==
    /\ req[r].method = "GET" => resp'[r] = ExpectedGet(k)
    /\ req[r].method = "DELETE" =>
          /\ resp'[r].status = 204 <=> Present(k)
          /\ resp'[r].status = 204 => k \notin DOMAIN store' /\ ~PresentAfter(k)

\* C10 as stated, for every key k: GET /k returns 200 with the body of the
\* most recent PUT /k if no DELETE /k succeeded since, and 404 otherwise;
\* DELETE /k returns 204 exactly when k is present, and then k is absent.
C10_EveryKey ==
    [][\A r \in Reqs : Answers(r) => StoreContract(r, req[r].path)]_vars

\* C10 as amended: the same for every key k other than "metrics", the name
\* of the fixed route.
C10_EveryKeyButMetrics ==
    [][\A r \in Reqs : (Answers(r) /\ req[r].path # MetricsPath) =>
                          StoreContract(r, req[r].path)]_vars

\* PUT /foo "bar", a request answered 200 "bar", DELETE /foo: the fourth
\* request is answered 404.
C10_Witness ==
    /\ issued = 4
    /\ lastPut["foo"] = {"bar"}
    /\ delSince["foo"]
    /\ store = EmptyMap
    /\ \E r \in Reqs : pc[r] = "rec_acq" /\ resp[r].status = 404

\* Request r, answered in this step, is a GET or DELETE of a path that is not
\* a key of the store.
AbsentKeyRequest(r) ==
    /\ Answers(r)
    /\ req[r].method \in {"GET", "DELETE"}
    /\ req[r].path \notin DOMAIN store

\* The answer is 404 with an empty body and the store is as it was.
NotFoundUnchanged(r) ==
    /\ resp'[r] = [status |-> 404, text |-> "", report |-> <<>>]
    /\ store' = store

\* A failure answer to r is a 404 to a GET or DELETE of an absent key.
OnlyFailureIsNotFound(r) ==
    resp'[r].status >= 400 =>
        /\ resp'[r].status = 404
        /\ req[r].method \in {"GET", "DELETE"}
        /\ req[r].path \notin DOMAIN store

\* Request r, answered 404, returns from record in this step with one more
\* sample stored.
NotFoundIsRecorded(r) ==
    (pc[r] = "rec_in" /\ pc'[r] = "idle" /\ resp[r].status = 404) =>
        Len(latencies') = Len(latencies) + 1

\* C11 as stated, for every key: GET or DELETE of a key absent from the store
\* returns 404 with an empty body and leaves the store unchanged; no request
\* for a key fails in any other way; the request still adds one sample.
C11_AbsentKeyNotFound ==
    [][\A r \in Reqs :
          /\ AbsentKeyRequest(r) => NotFoundUnchanged(r)
          /\ (Answers(r) /\ Route(req[r]) # "metrics_handler") => OnlyFailureIsNotFound(r)
          /\ NotFoundIsRecorded(r)]_vars

\* C11 as amended: the same for every key other than "metrics", the name of
\* the fixed route.
C11_AbsentKeyNotFoundButMetrics ==
    [][\A r \in Reqs :
          /\ (AbsentKeyRequest(r) /\ req[r].path # MetricsPath) => NotFoundUnchanged(r)
          /\ (Answers(r) /\ req[r].path # MetricsPath) => OnlyFailureIsNotFound(r)
          /\ NotFoundIsRecorded(r)]_vars

\* The store holds only "baz"; a request for "foo", never put, was answered
\* 404 and is inside record, as the second request of the run.
C11_Witness ==
    /\ DOMAIN store = {"baz"}
    /\ lastPut["foo"] = {}
    /\ issued = 2
    /\ Len(latencies) = 1
    /\ \E r \in Reqs : pc[r] = "rec_in" /\ resp[r] = [status |-> 404, text |-> "", report |-> <<>>]

\* metrics_handler answers request r in this step.
MetricsAnswers(r) == Answers(r) /\ Route(req[r]) = "metrics_handler"

\* h, as <<whole, hundredths>>, is a number of hundredths of a millisecond
\* nearest to the whole microseconds of d (either neighbour at a tie).
IsTwoDecimalsOf(h, d) ==
    LET c == h[1] * 100 + h[2]
        us == d \div 1000
    IN /\ h[2] \in 0..99
       /\ c * 10 - 5 <= us
       /\ us <= c * 10 + 5

\* The report <<count, P50, P95, P99>> is what one snapshot of the samples s
\* gives: the count of s and, to two decimals, its nearest-rank samples.
ReportOfSnapshot(report, s) ==
    /\ report[1] = Len(s)
    /\ s = <<>> => report = <<0, <<0, 0>>, <<0, 0>>, <<0, 0>>>>
    /\ s # <<>> =>
          \A p \in {<<2, 50>>, <<3, 95>>, <<4, 99>>} :
             \E i \in DOMAIN s :
                /\ AtSortedPosition(s, NearestRank(Len(s), p[2]), s[i])
                /\ IsTwoDecimalsOf(report[p[1]], s[i])

\* C12: GET /metrics is answered 200 whatever the state and the number of
\* samples, zero included, and the count and percentiles of its body are
\* those of one snapshot, taken during the request with no other task inside
\* the recorder, of the samples stored at that moment.
C12_MetricsAlways200 ==
    /\ [](\A r \in Reqs : resp[r].report # <<>> => resp[r].status = 200)
    /\ [][\A r \in Reqs : MetricsAnswers(r) =>
             /\ resp'[r].status = 200
             /\ InsideRecorder = {r}
             /\ ReportOfSnapshot(resp'[r].report, latencies)]_vars

\* Two GET /metrics are answered and not yet recorded: one reports no sample,
\* the other the single sample of 1.234567 ms as count 1 and 1.23 ms.
C12_Witness ==
    \E r1, r2 \in Reqs :
       /\ pc[r1] = "rec_acq" /\ pc[r2] = "rec_acq"
       /\ resp[r1] = [status |-> 200, text |-> "",
                      report |-> <<0, <<0, 0>>, <<0, 0>>, <<0, 0>>>>]
       /\ resp[r2] = [status |-> 200, text |-> "",
                      report |-> <<1, <<1, 23>>, <<1, 23>>, <<1, 23>>>>]
       /\ latencies = <<1234567>>

\* C13: the duration the middleware passes to record for a request is the
\* elapsed time it measured and reported in the request's log line: one start
\* instant, one completion instant, one duration.
C13_RecordsLoggedDuration ==
    \A r \in Reqs : pc[r] = "rec_in" => meas[r].recorded = meas[r].logged

\* The layer returns the response of request r in this step.
LayerReturns(r) == pc[r] = "rec_in" /\ pc'[r] = "idle"

\* Request r takes a step of the middleware, before or after its handler:
\* entering the layer, measuring and locking the recorder, or recording and
\* returning.
MiddlewareStep(r) ==
    \/ pc[r] = "idle" /\ pc'[r] # "idle"
    \/ pc[r] = "rec_acq" /\ pc'[r] = "rec_in"
    \/ LayerReturns(r)

\* C14: the response the layer returns for a request has the status and body
\* its handler produced, nothing alters a produced response before that, and
\* the steps of the middleware leave the store and its lock alone and change
\* the recorder only by appending one sample when the layer returns.
C14_PurelyObservational ==
    [][\A r \in Reqs :
          /\ LayerReturns(r) =>
                /\ resp[r] # NoResp
                /\ sent' = resp[r]
                /\ latencies' = Append(latencies, meas[r].recorded)
          /\ (resp[r] # NoResp /\ ~LayerReturns(r)) => resp'[r] = resp[r]
          /\ MiddlewareStep(r) =>
                /\ store' = store /\ storeLock' = storeLock
                /\ ~LayerReturns(r) => latencies' = latencies]_vars

\* The layer has returned a 404 as its handler produced it, after a 200 that
\* carried the stored value; the store still holds the key and two samples
\* are recorded.
C14_Witness ==
    /\ sent = [status |-> 404, text |-> "", report |-> <<>>]
    /\ Len(latencies) = 2
    /\ DOMAIN store = {"foo"}
    /\ \A r \in Reqs : pc[r] = "idle"

\* h, as <<whole, hundredths>>, is a number of hundredths nearest to the
\* milliseconds ms, given as <<whole, thousandths>>.
IsTwoDecimalsOfMillis(h, ms) ==
    LET c == h[1] * 100 + h[2]
        us == ms[1] * 1000 + ms[2]
    IN /\ h[2] \in 0..99
       /\ c * 10 - 5 <= us
       /\ us <= c * 10 + 5

\* The reporter's steps: it leaves "waiting" only by a tick, which prints
\* nothing; the snapshot it then takes is of the samples stored at that
\* moment; it leaves "printing" only to "waiting", having printed the count
\* and, to two decimals, the percentiles of that snapshot.
ReporterStep ==
    /\ (pc[Reporter] = "waiting" /\ pc'[Reporter] # "waiting") =>
          pc'[Reporter] = "snap_acq" /\ printed' = <<>>
    /\ SnapshotReturns(Reporter) =>
          /\ pc'[Reporter] = "printing"
          /\ ReportOfSnapshot(FormatReport(rep'), latencies)
    /\ (pc[Reporter] = "printing" /\ pc'[Reporter] # "printing") =>
          /\ pc'[Reporter] = "waiting"
          /\ printed'[1] = rep.count
          /\ IsTwoDecimalsOfMillis(printed'[2], rep.p50)
          /\ IsTwoDecimalsOfMillis(printed'[3], rep.p95)
          /\ IsTwoDecimalsOfMillis(printed'[4], rep.p99)

\* Between a tick and its report nothing is printed.
OneReportPerTick == pc[Reporter] # "waiting" => printed = <<>>

\* C15: the reporter cycles waiting -> printing -> waiting for ever and never
\* ends: it leaves waiting only on a tick; with fair lock acquisition every
\* tick leads to one printed report, which carries the snapshot taken on that
\* tick; after printing it is waiting again.
C15_ReporterCycles ==
    /\ [][ReporterStep]_vars
    /\ []OneReportPerTick
    /\ [](pc[Reporter] \in {"waiting", "snap_acq", "snap_in", "printing"})
    /\ (pc[Reporter] = "snap_acq") ~> (pc[Reporter] = "waiting" /\ printed # <<>>)
    /\ []<>(pc[Reporter] = "printing")

\* The reporter waits again after a tick on which it printed the one recorded
\* sample of 10 ms as count 1 and 10.00 ms.
C15_Witness ==
    /\ pc[Reporter] = "waiting"
    /\ printed = <<1, <<10, 0>>, <<10, 0>>, <<10, 0>>>>
    /\ latencies = <<10000000>>

\* The PUT answered in this step returns 200 with an empty body and leaves
\* its body under its key, whatever was there, and the other entries as they were.
PutStores(r) ==
    /\ resp'[r] = [status |-> 200, text |-> "", report |-> <<>>]
    /\ DOMAIN store' = DOMAIN store \cup {req[r].path}
    /\ store'[req[r].path] = req[r].body
    /\ \A k \in DOMAIN store \ {req[r].path} : store'[k] = store[k]

\* C16 as stated: PUT has no failure outcome: for every key, a key equal to
\* the name of the fixed route "metrics" included, PUT /{key} returns 200 with
\* an empty body and stores the request body under the key, overwriting any
\* previous value.
C16_PutEveryKey ==
    [][\A r \in Reqs : (Answers(r) /\ req[r].method = "PUT") => PutStores(r)]_vars

\* C16 as amended: the same for every key other than "metrics"; PUT /metrics
\* is answered 405 with an empty body and stores nothing.
C16_PutEveryKeyButMetrics ==
    [][\A r \in Reqs : (Answers(r) /\ req[r].method = "PUT") =>
          IF req[r].path # MetricsPath
          THEN PutStores(r)
          ELSE /\ resp'[r] = [status |-> 405, text |-> "", report |-> <<>>]
               /\ store' = store]_vars

\* The third request, a PUT of "qux" under "foo", was answered 200 after a GET
\* had returned the earlier value "bar" of that key: the store now holds "qux".
C16_Witness ==
    /\ issued = 3
    /\ sent = [status |-> 200, text |-> "bar", report |-> <<>>]
    /\ DOMAIN store = {"foo"}
    /\ store["foo"] = "qux"
    /\ \E r \in Reqs : pc[r] = "rec_acq" /\ resp[r] = [status |-> 200, text |-> "", report |-> <<>>]

\* The tasks holding the store lock, and those holding the recorder lock.
StoreHolders == storeLock.w \cup storeLock.r

RecHolders == recLock.w \cup recLock.r

\* The tasks holding the lock task t stands waiting for.
HoldersBefore(t) == IF pc[t] = "store_acq" THEN StoreHolders ELSE RecHolders

\* C17: the store and the recorder have separate locks and no task holds
\* both: the store lock is held only inside a store handler, is dropped
\* before the middleware asks for the recorder lock, and is never taken by a
\* snapshot or by the reporter.  So there is no deadlock: a task that waits
\* for a lock waits for tasks that hold only that lock and wait for nothing.
\* And a store handler waits only for the store lock, never for the recorder.
C17_SeparateLocksNoDeadlock ==
    /\ StoreHolders \cap RecHolders = {}
    /\ \A t \in StoreHolders : t \in Reqs /\ pc[t] = "store_in"
    /\ \A t \in Tasks : pc[t] \in {"snap_acq", "snap_in", "rec_acq", "rec_in"} =>
          t \notin StoreHolders
    /\ \A t \in Tasks : MustWait(t) =>
          /\ HoldersBefore(t) # {}
          /\ \A h \in HoldersBefore(t) :
                /\ ~MustWait(h)
                /\ pc[h] \in IF pc[t] = "store_acq" THEN {"store_in"}
                             ELSE {"rec_in", "snap_in"}
    /\ \A r \in Reqs : pc[r] \in {"store_acq", "store_in"} =>
          /\ r \notin RecHolders
          /\ (storeLock = FreeLock => ~MustWait(r))

\* One request is inside a store handler holding the store lock while
\* another is inside record holding the recorder lock and the reporter waits
\* for the recorder.
C17_Witness ==
    /\ \E r1, r2 \in Reqs :
          /\ pc[r1] = "store_in" /\ r1 \in storeLock.w
          /\ pc[r2] = "rec_in" /\ r2 \in recLock.w
    /\ pc[Reporter] = "snap_acq" /\ MustWait(Reporter)

\* The requests that entered the layer and have not been recorded yet.
InFlight == {r \in Reqs : pc[r] # "idle"}

\* C18: the snapshot a GET /metrics returns does not include that request's
\* own sample: the handler takes it before the layer records the request, so
\* its count is the number of record calls completed before the snapshot held
\* the recorder, which leaves out every request in flight, this one included;
\* when the requests come one after the other the k-th request, if it is
\* GET /metrics, reports count k - 1.
C18_OwnSampleNotIncluded ==
    [][\A r \in Reqs :
          /\ pc[r] = "snap_in" => nRecorded' = nRecorded
          /\ MetricsAnswers(r) =>
                /\ resp'[r].report[1] = nRecorded
                /\ r \in InFlight
                /\ nRecorded = issued - Cardinality(InFlight)
                /\ InFlight = {r} => resp'[r].report[1] = issued - 1
                /\ pc'[r] = "rec_acq"]_vars

\* The third request, a GET /metrics sent after the first two were recorded,
\* is answered with count 2 and has yet to be recorded.
C18_Witness ==
    /\ issued = 3
    /\ nRecorded = 2
    /\ \E r \in Reqs :
          /\ InFlight = {r}
          /\ pc[r] = "rec_acq"
          /\ resp[r].report # <<>>
          /\ resp[r].report[1] = 2

\* C19: for every N >= 1 and q in {0.50, 0.95, 0.99} the index as computed
\* is floor(N*q) and is at most N-1 already, so the clamp to N-1 leaves it as
\* it is, and the index used lies in 0..N-1: the access is never out of bounds.
C19_ClampNeverChangesIndex ==
    idxs # NoIdxs =>
        \A num \in Quantiles :
           /\ idxs[num].raw * 100 <= lenArg * num
           /\ lenArg * num < (idxs[num].raw + 1) * 100
           /\ idxs[num].raw <= lenArg - 1
           /\ idxs[num].used = idxs[num].raw
           /\ idxs[num].used \in 0..(lenArg - 1)

\* For 100 samples the indices are 50, 95 and 99: the last one is N-1 as
\* computed, before any clamp.
C19_Witness ==
    /\ lenArg = 100
    /\ idxs # NoIdxs
    /\ idxs[50].used = 50
    /\ idxs[95].used = 95
    /\ idxs[99].raw = 99

\* The whole microseconds a millisecond value <<whole, thousandths>> stands for.
MicrosOf(ms) == ms[1] * 1000 + ms[2]

\* The smallest and the largest of the samples of s.
Smallest(s) == CHOOSE d \in {s[i] : i \in DOMAIN s} : \A i \in DOMAIN s : d <= s[i]

Largest(s) == CHOOSE d \in {s[i] : i \in DOMAIN s} : \A i \in DOMAIN s : s[i] <= d

\* C20: a snapshot of a non-empty recorder returns p50 <= p95 <= p99; each
\* of the three is the millisecond value of a recorded sample and lies
\* between those of the smallest and the largest sample; with one sample all
\* three are that sample's.
C20_PercentilesOrdered ==
    [][(CallReturns /\ latencies # <<>>) =>
         /\ MicrosOf(ret'.p50) <= MicrosOf(ret'.p95)
         /\ MicrosOf(ret'.p95) <= MicrosOf(ret'.p99)
         /\ \A p \in {ret'.p50, ret'.p95, ret'.p99} :
               /\ \E i \in DOMAIN latencies : IsMillisOf(p, latencies[i])
               /\ Smallest(latencies) \div 1000 <= MicrosOf(p)
               /\ MicrosOf(p) <= Largest(latencies) \div 1000
         /\ Len(latencies) = 1 =>
               \A p \in {ret'.p50, ret'.p95, ret'.p99} : IsMillisOf(p, latencies[1])]_vars

\* Four samples, the smallest below one microsecond: the snapshot returned
\* 30 ms, the third smallest, as p50 and 40 ms, the largest, as p95 and p99.
C20_Witness ==
    /\ calls = 1
    /\ latencies = <<999, 1234567, 30000000, 40000000>>
    /\ ret = [p50 |-> <<30, 0>>, p95 |-> <<40, 0>>, p99 |-> <<40, 0>>, count |-> 4]

====
